---- MODULE Spec2Model ----
(***************************************************************************)
(* DocumentationScraper (src/src/documentation-scraper.ts): platform       *)
(* detection, URL discovery (sitemap strategy and recursive crawl),        *)
(* content extraction and document assembly, as one state machine.         *)
(* Addresses, selectors, markup and the output document are strings; the   *)
(* browser, the site and the file system are the environment.              *)
(***************************************************************************)
EXTENDS Integers, Sequences, FiniteSets, TLC

VARIABLES
    platform,          \* this.platform
    recursiveCrawling, \* this.recursiveCrawling
    includeMetadata,   \* this.includeMetadata
    baseUrl,           \* scrape(baseUrl, ...)
    outputPath,        \* scrape(..., outputPath); "" when absent
    pc,                \* position inside scrape / getDocumentationUrls
    browser,           \* "none" | "open" | "closed"
    closes,            \* number of browser.close() calls
    pageUrl,           \* page.url(): where the single page currently is
    currentPlatform,   \* getDocumentationUrls: let currentPlatform
    discoveredUrls,    \* getDocumentationUrls: discoveredUrls (Set)
    visitedUrls,       \* getDocumentationUrls: visitedUrls (Set)
    urlsToVisit,       \* getDocumentationUrls: urlsToVisit (insertion-ordered Set)
    currentUrl,        \* crawl loop: const currentUrl
    urls,              \* scrape: const urls
    detectedPlatform,  \* scrape: let detectedPlatform
    allContent,        \* scrape: let allContent
    idx,               \* scrape: loop index i
    fileContent,       \* what fs.writeFile stored at outputPath
    outcome,           \* how scrape ended: returned text or thrown error
    sitemapXml,        \* the text served for <baseUrl>/sitemap.xml, once fetched
    failures,          \* number of failures the environment has injected
    log,               \* what happened: skipped addresses, failed steps
    det                \* detectPlatform applied to one inspected page

vars == << platform, recursiveCrawling, includeMetadata, baseUrl, outputPath, pc,
           browser, closes, pageUrl, currentPlatform, discoveredUrls, visitedUrls,
           urlsToVisit, currentUrl, urls, detectedPlatform, allContent, idx,
           fileContent, outcome, sitemapXml, failures, log, det >>

(***************************************************************************)
(* Bounds of the model.                                                    *)
(***************************************************************************)
MaxFailures == 2

(***************************************************************************)
(* Strings, as JavaScript computes on them.                                *)
(***************************************************************************)
\* the printable ASCII characters in code order, from 32; a space stands in at
\* 96 (grave accent), which no modelled text contains
Ascii == " !\"#$%&'()*+,-./0123456789:;<=>?@ABCDEFGHIJKLMNOPQRSTUVWXYZ[\\]^_ abcdefghijklmnopqrstuvwxyz{|}~"

\* s.charCodeAt(i - 1), for printable ASCII
CharCode(s, i) ==
    LET at == { k \in 1..Len(Ascii) : SubSeq(Ascii, k, k) = SubSeq(s, i, i) }
    IN  31 + (CHOOSE k \in at : \A j \in at : k <= j)

\* s.startsWith(p)
StartsWith(s, p) == Len(p) <= Len(s) /\ SubSeq(s, 1, Len(p)) = p

\* s.endsWith(p)
EndsWith(s, p) == Len(p) <= Len(s) /\ SubSeq(s, Len(s) - Len(p) + 1, Len(s)) = p

\* s.indexOf(sub, from - 1) + 1; 0 when absent
IndexOf(s, sub, from) ==
    LET hits == { i \in from..(Len(s) - Len(sub) + 1) : SubSeq(s, i, i + Len(sub) - 1) = sub }
    IN  IF hits = {} THEN 0 ELSE CHOOSE i \in hits : \A j \in hits : i <= j

\* s.includes(sub)
Includes(s, sub) == IndexOf(s, sub, 1) > 0

\* s.replace(/sub/g, empty) for a literal sub
RECURSIVE RemoveAll(_, _)
RemoveAll(s, sub) ==
    LET i == IndexOf(s, sub, 1)
    IN  IF i = 0 THEN s
        ELSE SubSeq(s, 1, i - 1) \o RemoveAll(SubSeq(s, i + Len(sub), Len(s)), sub)

\* s.toLowerCase(), for ASCII
RECURSIVE ToLowerCase(_)
ToLowerCase(s) ==
    IF s = "" THEN ""
    ELSE LET c == CharCode(s, 1)
             l == IF c >= 65 /\ c <= 90 THEN SubSeq(Ascii, c + 1, c + 1) ELSE SubSeq(s, 1, 1)
         IN  l \o ToLowerCase(SubSeq(s, 2, Len(s)))

\* s.trim(), for texts whose only white space is the space
Trim(s) ==
    LET keep == { i \in 1..Len(s) : SubSeq(s, i, i) # " " }
    IN  IF keep = {} THEN ""
        ELSE SubSeq(s, CHOOSE i \in keep : \A j \in 1..(i - 1) : j \notin keep,
                       CHOOSE i \in keep : \A j \in (i + 1)..Len(s) : j \notin keep)

\* a < b in the order of Array.prototype.sort() without a comparator
\* (UTF-16 code units, a proper prefix first)
StringLess(a, b) ==
    LET n    == IF Len(a) < Len(b) THEN Len(a) ELSE Len(b)
        diff == { i \in 1..n : SubSeq(a, i, i) # SubSeq(b, i, i) }
    IN  IF diff = {} THEN Len(a) < Len(b)
        ELSE LET i == CHOOSE k \in diff : \A j \in diff : k <= j
             IN  CharCode(a, i) < CharCode(b, i)

\* SortedArray with the greatest string first
RECURSIVE SortedArrayDescending(_)
SortedArrayDescending(set) ==
    IF set = {} THEN << >>
    ELSE LET greatest == CHOOSE x \in set : \A y \in set \ {x} : StringLess(y, x)
         IN  << greatest >> \o SortedArrayDescending(set \ {greatest})

\* Array.from(set).sort()
RECURSIVE SortedArray(_)
SortedArray(set) ==
    IF set = {} THEN << >>
    ELSE LET least == CHOOSE x \in set : \A y \in set \ {x} : StringLess(x, y)
         IN  << least >> \o SortedArray(set \ {least})

\* s.repeat(n)
RECURSIVE Repeat(_, _)
Repeat(s, n) == IF n = 0 THEN "" ELSE s \o Repeat(s, n - 1)

(***************************************************************************)
(* Addresses.                                                              *)
(***************************************************************************)
\* index of the last character of the authority of address u
AuthorityEnd(u) ==
    LET from  == IndexOf(u, "://", 1) + 3
        stops == { i \in from..Len(u) : SubSeq(u, i, i) \in {"/", "?", "#"} }
    IN  IF stops = {} THEN Len(u) ELSE (CHOOSE i \in stops : \A j \in stops : i <= j) - 1

\* new URL(u).pathname
Pathname(u) ==
    LET from  == AuthorityEnd(u) + 1
        stops == { i \in from..Len(u) : SubSeq(u, i, i) \in {"?", "#"} }
        to    == IF stops = {} THEN Len(u) ELSE (CHOOSE i \in stops : \A j \in stops : i <= j) - 1
    IN  IF to < from THEN "/" ELSE SubSeq(u, from, to)

\* new URL(u).origin as (scheme, host, port), the port defaulted by scheme
Origin(u) ==
    LET scheme == SubSeq(u, 1, IndexOf(u, "://", 1) - 1)
        auth   == SubSeq(u, IndexOf(u, "://", 1) + 3, AuthorityEnd(u))
        colon  == IndexOf(auth, ":", 1)
        host   == IF colon = 0 THEN auth ELSE SubSeq(auth, 1, colon - 1)
        port   == IF colon # 0 /\ colon < Len(auth) THEN SubSeq(auth, colon + 1, Len(auth))
                  ELSE IF scheme = "https" THEN "443" ELSE "80"
    IN  << scheme, host, port >>

SameOrigin(a, b) == Origin(a) = Origin(b)

(***************************************************************************)
(* Platform configurations.  Selector texts are written without the double *)
(* quotes around attribute values.                                         *)
(***************************************************************************)
Platform == {"docusaurus", "mintlify", "auto"}

\* a RegExp literal of the configuration: /text/ or /\.(a|b|...)$/i
Contains(text) == [kind |-> "contains", text |-> text]
Extension(alts) == [kind |-> "extension", alts |-> alts]

\* pattern.test(url)
RegExpTest(pattern, url) ==
    IF pattern.kind = "contains" THEN Includes(url, pattern.text)
    ELSE LET lower == ToLowerCase(url)
         IN  \E e \in pattern.alts : EndsWith(lower, "." \o e)

\* patterns.some((pattern) => pattern.test(url))
SomePatternMatches(patterns, url) ==
    \E k \in 1..Len(patterns) : RegExpTest(patterns[k], url)

DocusaurusConfig ==
    [navigationSelectors |->
        << "nav a[href*=/docs]", ".menu a", ".sidebar a", "[class*=sidebar] a",
           "[class*=menu] a" >>,
     contentSelectors |->
        << "main article", ".markdown", "[class*=docItemContainer]",
           "[class*=docMainContainer]", "[class*=content]", "main", "article" >>,
     useSitemap |-> TRUE]

MintlifyConfig ==
    [navigationSelectors |->
        << ".docs-sidebar a", ".sidebar a", "nav a", "[data-nav] a", ".navigation a",
           "[class*=sidebar] a", "[class*=nav] a", ".docs-nav a" >>,
     contentSelectors |->
        << ".docs-content", ".markdown", "main article", "[class*=content]", ".prose",
           "main", "article", ".page-content" >>,
     useSitemap |-> TRUE,
     urlPatterns |->
        << Contains("/docs/"), Contains("/guide/"), Contains("/api/"),
           Contains("/reference/") >>,
     excludePatterns |->
        << Contains("/api/auth/"), Contains("/oauth/"), Contains("/login"),
           Contains("/signup"), Contains("/dashboard"), Contains("/settings"),
           Extension({"css", "js", "json", "xml", "ico", "png", "jpg", "jpeg", "gif", "svg"}),
           Contains("/assets/"), Contains("/static/") >>]

AutoConfig ==
    [navigationSelectors |->
        << "nav a[href*=/docs]", ".menu a", ".sidebar a", "[class*=sidebar] a",
           "[class*=menu] a", ".docs-sidebar a", "[data-nav] a", ".navigation a",
           ".docs-nav a" >>,
     contentSelectors |->
        << "main article", ".markdown", "[class*=docItemContainer]",
           "[class*=docMainContainer]", ".docs-content", "[class*=content]", ".prose",
           "main", "article", ".page-content" >>,
     useSitemap |-> TRUE]

\* getPlatformConfig(detectedPlatform)
getPlatformConfig(p) ==
    CASE p = "docusaurus" -> DocusaurusConfig
      [] p = "mintlify"   -> MintlifyConfig
      [] p = "auto"       -> AutoConfig

HasUrlPatterns(config) == "urlPatterns" \in DOMAIN config
HasExcludePatterns(config) == "excludePatterns" \in DOMAIN config

(***************************************************************************)
(* Platform detection.  A document is what page.evaluate inspects: the     *)
(* class attributes of its elements, its scripts and its meta elements.    *)
(***************************************************************************)
\* the callback of page.evaluate in detectPlatform
Indicators(dom) ==
    [hasDocusaurusClass  |-> \E c \in dom.classes : Includes(c, "docusaurus"),
     hasDocusaurusScript |-> \E sc \in dom.scripts :
                                 Includes(sc.src, "docusaurus") \/ Includes(sc.text, "docusaurus"),
     hasMintlifyMeta     |-> \E m \in dom.metas :
                                 m.name = "generator" /\ Includes(m.content, "Mintlify"),
     hasMintlifyClass    |-> \E c \in dom.classes : Includes(c, "mintlify")]

\* DetectTry with the two tests in the other order
DetectTryMintlifyFirst(dom, evaluateThrows) ==
    IF evaluateThrows THEN [threw |-> TRUE, value |-> "EvaluateError"]
    ELSE LET indicators == Indicators(dom)
         IN  IF indicators.hasMintlifyMeta \/ indicators.hasMintlifyClass
                 THEN [threw |-> FALSE, value |-> "mintlify"]
             ELSE IF indicators.hasDocusaurusClass \/ indicators.hasDocusaurusScript
                 THEN [threw |-> FALSE, value |-> "docusaurus"]
             ELSE [threw |-> FALSE, value |-> "auto"]

\* the try block of detectPlatform: a value, or the exception page.evaluate raised
DetectTry(dom, evaluateThrows) ==
    IF evaluateThrows THEN [threw |-> TRUE, value |-> "EvaluateError"]
    ELSE LET indicators == Indicators(dom)
         IN  IF indicators.hasDocusaurusClass \/ indicators.hasDocusaurusScript
                 THEN [threw |-> FALSE, value |-> "docusaurus"]
             ELSE IF indicators.hasMintlifyMeta \/ indicators.hasMintlifyClass
                 THEN [threw |-> FALSE, value |-> "mintlify"]
             ELSE [threw |-> FALSE, value |-> "auto"]

\* detectPlatform without its catch
detectPlatformNoCatch(dom, evaluateThrows) ==
    LET indicators == Indicators(dom)
    IN  IF evaluateThrows THEN [threw |-> TRUE, value |-> "EvaluateError"]
        ELSE IF indicators.hasDocusaurusClass \/ indicators.hasDocusaurusScript
            THEN [threw |-> FALSE, value |-> "docusaurus"]
        ELSE IF indicators.hasMintlifyMeta \/ indicators.hasMintlifyClass
            THEN [threw |-> FALSE, value |-> "mintlify"]
        ELSE [threw |-> FALSE, value |-> "auto"]

\* detectPlatform(page): the try block, and catch { return 'auto' }
detectPlatform(dom, evaluateThrows) ==
    LET r == DetectTry(dom, evaluateThrows)
    IN  IF r.threw THEN [threw |-> FALSE, value |-> "auto"] ELSE r

(***************************************************************************)
(* The site the browser renders: one page per address.                     *)
(***************************************************************************)
Base == "https://docs.io"
HomeUrl == "https://docs.io/"
AlphaUrl == "https://docs.io/docs/a"
AlphaTopUrl == "https://docs.io/docs/a#top"
BetaUrl == "https://docs.io/docs/b"
BetaFragUrl == "https://docs.io/docs/b#frag"
GammaUrl == "https://docs.io/docs/c"
LoginUrl == "https://docs.io/login"
AboutUrl == "https://docs.io/about"
LogoUrl == "https://docs.io/docs/a.png"
MirrorUrl == "https://docs.io.evil.net/x"
OtherUrl == "https://other.com/c"

\* 104 characters, 103 once trimmed
LongText == Repeat("doc ", 26)
\* 103 characters, exactly 100 once trimmed
BorderText == "  " \o Repeat("x", 100) \o " "

Element(text) == [found |-> TRUE, textContent |-> text, innerHTML |-> "<p>" \o text \o "</p>"]
EmptyElement == [found |-> TRUE, textContent |-> "", innerHTML |-> ""]
NoElement == [found |-> FALSE, textContent |-> "", innerHTML |-> ""]

Generator(content) == [name |-> "generator", content |-> content]

HomePage ==
    [location |-> HomeUrl, title |-> "Docs",
     dom |-> [classes |-> {"navbar"}, scripts |-> {}, metas |-> {Generator("Mintlify 3.1")}],
     elements |-> ("main" :> Element("Welcome")),
     anchors |-> (".sidebar a" :> << BetaUrl, AlphaUrl >>
                  @@ "a[href]" :> << HomeUrl, BetaUrl, AlphaUrl, AlphaTopUrl, LoginUrl,
                                     OtherUrl, MirrorUrl, AboutUrl >>)]

AlphaPage ==
    [location |-> AlphaUrl, title |-> "Alpha",
     dom |-> [classes |-> {"navbar"},
              scripts |-> {[src |-> "/assets/js/docusaurus.js", text |-> ""]}, metas |-> {}],
     elements |-> ("main article" :> Element(LongText) @@ "main" :> Element(LongText)),
     anchors |-> ("a[href]" :> << HomeUrl, GammaUrl, BetaUrl >>)]

BetaPage ==
    [location |-> BetaUrl, title |-> "Beta",
     dom |-> [classes |-> {"navbar"}, scripts |-> {}, metas |-> {}],
     elements |-> (".markdown" :> Element(BorderText)),
     anchors |-> ("a[href]" :> << AlphaUrl >>)]

GammaPage ==
    [location |-> GammaUrl, title |-> "Gamma",
     dom |-> [classes |-> {"navbar"}, scripts |-> {}, metas |-> {}],
     elements |-> ("main article" :> EmptyElement @@ "article" :> Element(LongText)),
     anchors |-> ("a[href]" :> << AlphaTopUrl, AlphaUrl >>)]

LoginPage ==
    [location |-> LoginUrl, title |-> "Sign in",
     dom |-> [classes |-> {"navbar"}, scripts |-> {}, metas |-> {}],
     elements |-> << >>,
     anchors |-> ("a[href]" :> << HomeUrl >>)]

\* a page outside /docs/ whose content only a late content selector matches
AboutPage ==
    [location |-> AboutUrl, title |-> "About",
     dom |-> [classes |-> {"navbar"}, scripts |-> {}, metas |-> {}],
     elements |-> ("[class*=content]" :> Element(LongText)),
     anchors |-> << >>]

\* an image under /docs/, listed by the sitemap
LogoPage ==
    [location |-> LogoUrl, title |-> "",
     dom |-> [classes |-> {}, scripts |-> {}, metas |-> {}],
     elements |-> << >>,
     anchors |-> << >>]

MirrorPage ==
    [location |-> MirrorUrl, title |-> "Mirror",
     dom |-> [classes |-> {"docusaurus-mt-lg"}, scripts |-> {}, metas |-> {}],
     elements |-> ("main" :> Element(LongText)),
     anchors |-> << >>]

Web ==
    Base :> HomePage @@ HomeUrl :> HomePage @@ AlphaUrl :> AlphaPage @@ BetaUrl :> BetaPage
    @@ GammaUrl :> GammaPage @@ LoginUrl :> LoginPage @@ MirrorUrl :> MirrorPage
    @@ AboutUrl :> AboutPage @@ LogoUrl :> LogoPage

\* page.$(selector)
QuerySelector(page, selector) ==
    IF selector \in DOMAIN page.elements THEN page.elements[selector] ELSE NoElement

\* page.$$eval(selector, links => links.map(l => l.href).filter(href => href))
EvalHrefs(page, selector) ==
    IF selector \in DOMAIN page.anchors THEN page.anchors[selector] ELSE << >>

Loc(u) == "<url><loc>" \o u \o "</loc></url>"

\* what the site may serve for <baseUrl>/sitemap.xml
SitemapMixed ==
    "<urlset>" \o Loc(BetaUrl) \o Loc(AlphaUrl) \o Loc(AlphaTopUrl) \o Loc(OtherUrl)
    \o Loc(MirrorUrl) \o Loc(AlphaUrl) \o Loc(LoginUrl) \o Loc(LogoUrl) \o "</urlset>"
SitemapPlain ==
    "<urlset>" \o Loc(AlphaUrl) \o Loc(BetaFragUrl) \o Loc(OtherUrl) \o "</urlset>"
SitemapForeign == "<urlset>" \o Loc(OtherUrl) \o "</urlset>"
Sitemaps == { SitemapMixed, SitemapPlain, SitemapForeign }

Now == "2025-06-27T10:00:00.000Z"

(***************************************************************************)
(* Sitemap parsing.                                                        *)
(***************************************************************************)
\* content.match(/<loc>(.*?)<\/loc>/g), as a sequence (empty for null); the
\* dot matches no line feed
RECURSIVE LocMatches(_)
LocMatches(content) ==
    LET i == IndexOf(content, "<loc>", 1)
        j == IF i = 0 THEN 0 ELSE IndexOf(content, "</loc>", i + 5)
    IN  IF i = 0 \/ j = 0 THEN << >>
        ELSE IF Includes(SubSeq(content, i + 5, j - 1), "\n")
            THEN LocMatches(SubSeq(content, i + 1, Len(content)))
        ELSE << SubSeq(content, i, j + 5) >>
             \o LocMatches(SubSeq(content, j + 6, Len(content)))

\* match.replace(/<\/?loc>/g, '')
RECURSIVE StripLocTags(_)
StripLocTags(match) ==
    LET a == IndexOf(match, "<loc>", 1)
        b == IndexOf(match, "</loc>", 1)
    IN  IF a = 0 /\ b = 0 THEN match
        ELSE IF b = 0 \/ (a # 0 /\ a < b)
            THEN SubSeq(match, 1, a - 1) \o StripLocTags(SubSeq(match, a + 5, Len(match)))
        ELSE SubSeq(match, 1, b - 1) \o StripLocTags(SubSeq(match, b + 6, Len(match)))

\* the test of the sitemap forEach: may this <loc> address be added
SitemapKeeps(url, base, config) ==
    /\ StartsWith(url, base)
    /\ ~Includes(url, "#")
    /\ HasUrlPatterns(config) => SomePatternMatches(config.urlPatterns, url)

\* discoveredUrls after the forEach over the matches
SitemapUrls(content, base, config) ==
    LET matches == LocMatches(content)
    IN  { StripLocTags(matches[k]) : k \in { n \in 1..Len(matches) :
              SitemapKeeps(StripLocTags(matches[n]), base, config) } }

(***************************************************************************)
(* Content detection and extraction.                                       *)
(***************************************************************************)
MinTextLength == 100

\* hasDocumentationContent with at least in place of more than
hasDocumentationContentAtLeast(page, config, broken) ==
    \E k \in 1..Len(config.contentSelectors) :
        LET element == QuerySelector(page, config.contentSelectors[k])
        IN  /\ config.contentSelectors[k] \notin broken
            /\ element.found /\ Len(Trim(element.textContent)) >= MinTextLength

\* hasDocumentationContent(page, config); broken are the selectors for which
\* page.$ or element.evaluate throws, which the loop catches to go on
hasDocumentationContent(page, config, broken) ==
    \E k \in 1..Len(config.contentSelectors) :
        LET element == QuerySelector(page, config.contentSelectors[k])
        IN  /\ config.contentSelectors[k] \notin broken
            /\ element.found /\ Len(Trim(element.textContent)) > MinTextLength

\* the read failures the environment may inject into one content check: none,
\* or one at a selector whose element has text enough to decide the check (a
\* failure at any other selector leaves the result as it is)
DetectionFailures(page, config) ==
    {{}} \cup { {config.contentSelectors[k]} :
                  k \in { n \in 1..Len(config.contentSelectors) :
                            LET element == QuerySelector(page, config.contentSelectors[n])
                            IN  element.found
                                /\ Len(Trim(element.textContent)) > MinTextLength } }

\* this.turndown.turndown(content), on paragraphs of plain text
Turndown(html) == Trim(RemoveAll(RemoveAll(html, "<p>"), "</p>"))

\* extractContent with the markup of the last selector that can be read
extractContentLastMatch(page, p, broken) ==
    LET config    == getPlatformConfig(IF p = "" THEN platform ELSE p)
        selectors == config.contentSelectors
        hits      == { k \in 1..Len(selectors) :
                         /\ selectors[k] \notin broken
                         /\ QuerySelector(page, selectors[k]).found }
        content   == IF hits = {} THEN ""
                     ELSE QuerySelector(page,
                              selectors[CHOOSE k \in hits : \A j \in hits : k >= j]).innerHTML
    IN  IF content # ""
        THEN "## " \o page.title \o "\n\n**URL:** " \o page.location \o "\n**Ruta:** "
             \o Pathname(page.location) \o "\n\n" \o Turndown(content)
        ELSE ""

\* extractContent(page, platform); broken are the selectors for which page.$ or
\* element.evaluate throws, which the loop catches to go on with the next one
extractContent(page, p, broken) ==
    LET config    == getPlatformConfig(IF p = "" THEN platform ELSE p)
        selectors == config.contentSelectors
        hits      == { k \in 1..Len(selectors) :
                         /\ selectors[k] \notin broken
                         /\ QuerySelector(page, selectors[k]).found }
        content   == IF hits = {} THEN ""
                     ELSE QuerySelector(page,
                              selectors[CHOOSE k \in hits : \A j \in hits : k <= j]).innerHTML
    IN  IF content # ""
        THEN "## " \o page.title \o "\n\n**URL:** " \o page.location \o "\n**Ruta:** "
             \o Pathname(page.location) \o "\n\n" \o Turndown(content)
        ELSE ""

\* the read failures the environment may inject into one run of the cascade:
\* none, or one at a selector that matches an element of the page
ReadFailures(page, p) ==
    LET selectors == getPlatformConfig(IF p = "" THEN platform ELSE p).contentSelectors
    IN  {{}} \cup { {selectors[k]} : k \in { n \in 1..Len(selectors) :
                                               QuerySelector(page, selectors[n]).found } }

\* CrawlKeeps without the test of visitedUrls
CrawlKeepsVisited(url, base, config, visited) ==
    /\ StartsWith(url, base)
    /\ ~Includes(url, "#")
    /\ HasExcludePatterns(config) => ~SomePatternMatches(config.excludePatterns, url)

\* the links.forEach of the crawl loop: may this harvested address be queued
CrawlKeeps(url, base, config, visited) ==
    /\ StartsWith(url, base)
    /\ ~Includes(url, "#")
    /\ url \notin visited
    /\ HasExcludePatterns(config) => ~SomePatternMatches(config.excludePatterns, url)

\* Set.prototype.add on an insertion-ordered set
SetAdd(queue, url) ==
    IF \E k \in 1..Len(queue) : queue[k] = url THEN queue ELSE Append(queue, url)

RECURSIVE AddLinks(_, _, _, _, _)
AddLinks(queue, links, base, config, visited) ==
    IF links = << >> THEN queue
    ELSE AddLinks(IF CrawlKeeps(Head(links), base, config, visited)
                      THEN SetAdd(queue, Head(links)) ELSE queue,
                  Tail(links), base, config, visited)

\* the for loop over the selectors of the crawl loop
RECURSIVE HarvestLinks(_, _, _, _, _, _)
HarvestLinks(queue, selectors, page, base, config, visited) ==
    IF selectors = << >> THEN queue
    ELSE HarvestLinks(AddLinks(queue, EvalHrefs(page, Head(selectors)), base, config, visited),
                      Tail(selectors), page, base, config, visited)

customSelectors == << >>

\* const selectors = [...config.navigationSelectors, ...this.customSelectors, 'a[href]']
LinkSelectors(config) == config.navigationSelectors \o customSelectors \o << "a[href]" >>

(***************************************************************************)
(* scrape(baseUrl, outputPath).                                            *)
(***************************************************************************)
NoOutcome == [kind |-> "none", value |-> ""]
Returned(text) == [kind |-> "returned", value |-> text]
Thrown(error) == [kind |-> "thrown", value |-> error]

NoFirst == [done |-> FALSE, urls |-> << >>, discoveredUrls |-> {}, sitemapXml |-> ""]
NoLog == [skipped |-> {}, failed |-> {}, unread |-> {}, unseen |-> {}, rendered |-> << >>,
          sitemap |-> "none", write |-> "none", detections |-> << >>, first |-> NoFirst]
NoDet == [dom |-> [classes |-> {}, scripts |-> {}, metas |-> {}], evaluateThrows |-> FALSE,
          out |-> [threw |-> FALSE, value |-> ""]]

\* the environment may make one more step fail
MayFail == failures < MaxFailures

Init ==
    /\ platform \in Platform
    /\ recursiveCrawling \in BOOLEAN
    /\ includeMetadata \in BOOLEAN
    /\ baseUrl = Base
    /\ outputPath \in {"", "out.md"}
    /\ pc = "launch"
    /\ browser = "none"
    /\ closes = 0
    /\ pageUrl = "about:blank"
    /\ currentPlatform = ""
    /\ discoveredUrls = {}
    /\ visitedUrls = {}
    /\ urlsToVisit = << >>
    /\ currentUrl = ""
    /\ urls = << >>
    /\ detectedPlatform = ""
    /\ allContent = ""
    /\ idx = 0
    /\ fileContent = ""
    /\ outcome = NoOutcome
    /\ sitemapXml = ""
    /\ failures = 0
    /\ log = NoLog
    /\ det = NoDet

\* const browser = await chromium.launch(...)
Launch ==
    /\ pc = "launch"
    /\ \/ /\ browser' = "open"
          /\ pc' = "newPage"
          /\ UNCHANGED outcome
       \/ /\ outcome' = Thrown("LaunchError")
          /\ pc' = "done"
          /\ UNCHANGED browser
    /\ UNCHANGED << platform, recursiveCrawling, includeMetadata, baseUrl, outputPath, closes,
                    pageUrl, currentPlatform, discoveredUrls, visitedUrls, urlsToVisit,
                    currentUrl, urls, detectedPlatform, allContent, idx, fileContent,
                    sitemapXml, failures, log, det >>

\* const page = await browser.newPage(); let detectedPlatform = this.platform
NewPage ==
    /\ pc = "newPage"
    /\ \/ /\ detectedPlatform' = platform
          /\ pageUrl' = "about:blank"
          /\ pc' = "discover"
          /\ UNCHANGED outcome
       \/ /\ outcome' = Thrown("NewPageError")
          /\ pc' = "done"
          /\ UNCHANGED << detectedPlatform, pageUrl >>
    /\ UNCHANGED << platform, recursiveCrawling, includeMetadata, baseUrl, outputPath, browser,
                    closes, currentPlatform, discoveredUrls, visitedUrls, urlsToVisit,
                    currentUrl, urls, allContent, idx, fileContent, sitemapXml, failures,
                    log, det >>

\* where getDocumentationUrls goes once the configuration is known
\* AfterConfig that tries the sitemap whatever recursiveCrawling is
AfterConfigAlwaysSitemap(p) ==
    IF getPlatformConfig(p).useSitemap THEN "sitemap" ELSE "crawl"

AfterConfig(p) ==
    IF getPlatformConfig(p).useSitemap /\ ~recursiveCrawling THEN "sitemap" ELSE "crawl"

\* Discover with the three sets kept by the scraper from one run to the next
DiscoverKeepsSets ==
    /\ pc = "discover"
    /\ discoveredUrls' = discoveredUrls
    /\ visitedUrls' = visitedUrls
    /\ urlsToVisit' = SetAdd(urlsToVisit, baseUrl)
    /\ \/ /\ platform # "auto"
          /\ currentPlatform' = platform
          /\ pc' = AfterConfig(platform)
          /\ UNCHANGED << pageUrl, outcome, failures, log >>
       \/ /\ platform = "auto"
          /\ MayFail
          /\ failures' = failures + 1
          /\ outcome' = Thrown("NavigationError")
          /\ pc' = "catch"
          /\ UNCHANGED << pageUrl, currentPlatform, log >>
       \/ /\ platform = "auto"
          /\ \E evaluateThrows \in BOOLEAN :
                /\ evaluateThrows => MayFail
                /\ failures' = IF evaluateThrows THEN failures + 1 ELSE failures
                /\ LET got == detectPlatform(Web[baseUrl].dom, evaluateThrows)
                   IN  /\ currentPlatform' = got.value
                       /\ pc' = AfterConfig(got.value)
                       /\ log' = [log EXCEPT !.detections = Append(@, got.value)]
          /\ pageUrl' = Web[baseUrl].location
          /\ UNCHANGED outcome
    /\ UNCHANGED << platform, recursiveCrawling, includeMetadata, baseUrl, outputPath, browser,
                    closes, currentUrl, urls, detectedPlatform, allContent, idx, fileContent,
                    sitemapXml, det >>

\* getDocumentationUrls: the three sets, and detection of the platform in auto mode
Discover ==
    /\ pc = "discover"
    /\ discoveredUrls' = {}
    /\ visitedUrls' = {}
    /\ urlsToVisit' = << baseUrl >>
    /\ \/ /\ platform # "auto"
          /\ currentPlatform' = platform
          /\ pc' = AfterConfig(platform)
          /\ UNCHANGED << pageUrl, outcome, failures, log >>
       \/ /\ platform = "auto"
          /\ MayFail
          /\ failures' = failures + 1
          /\ outcome' = Thrown("NavigationError")
          /\ pc' = "catch"
          /\ UNCHANGED << pageUrl, currentPlatform, log >>
       \/ /\ platform = "auto"
          /\ \E evaluateThrows \in BOOLEAN :
                /\ evaluateThrows => MayFail
                /\ failures' = IF evaluateThrows THEN failures + 1 ELSE failures
                /\ LET got == detectPlatform(Web[baseUrl].dom, evaluateThrows)
                   IN  /\ currentPlatform' = got.value
                       /\ pc' = AfterConfig(got.value)
                       /\ log' = [log EXCEPT !.detections = Append(@, got.value)]
          /\ pageUrl' = Web[baseUrl].location
          /\ UNCHANGED outcome
    /\ UNCHANGED << platform, recursiveCrawling, includeMetadata, baseUrl, outputPath, browser,
                    closes, currentUrl, urls, detectedPlatform, allContent, idx, fileContent,
                    sitemapXml, det >>

\* Sitemap without its try/catch: a failed fetch leaves getDocumentationUrls
SitemapUncaught ==
    /\ pc = "sitemap"
    /\ \/ /\ MayFail
          /\ failures' = failures + 1
          /\ log' = [log EXCEPT !.sitemap = "failed"]
          /\ outcome' = Thrown("NavigationError")
          /\ pc' = "catch"
          /\ UNCHANGED << pageUrl, discoveredUrls, urls, sitemapXml >>
       \/ \E content \in Sitemaps :
             LET found == SitemapUrls(content, baseUrl, getPlatformConfig(currentPlatform))
             IN  /\ sitemapXml' = content
                 /\ pageUrl' = baseUrl \o "/sitemap.xml"
                 /\ discoveredUrls' = found
                 /\ log' = [log EXCEPT !.sitemap = "parsed"]
                 /\ IF Cardinality(found) > 0
                        THEN urls' = SortedArray(found) /\ pc' = "detect"
                        ELSE urls' = urls /\ pc' = "crawl"
                 /\ UNCHANGED << failures, outcome >>
    /\ UNCHANGED << platform, recursiveCrawling, includeMetadata, baseUrl, outputPath, browser,
                    closes, currentPlatform, visitedUrls, urlsToVisit, currentUrl,
                    detectedPlatform, allContent, idx, fileContent, det >>

\* Sitemap that returns its list even when no address survived
SitemapReturnsEmpty ==
    /\ pc = "sitemap"
    /\ \/ /\ MayFail
          /\ failures' = failures + 1
          /\ log' = [log EXCEPT !.sitemap = "failed"]
          /\ pc' = "crawl"
          /\ UNCHANGED << pageUrl, discoveredUrls, urls, sitemapXml >>
       \/ \E content \in Sitemaps :
             LET found == SitemapUrls(content, baseUrl, getPlatformConfig(currentPlatform))
             IN  /\ sitemapXml' = content
                 /\ pageUrl' = baseUrl \o "/sitemap.xml"
                 /\ discoveredUrls' = found
                 /\ log' = [log EXCEPT !.sitemap = "parsed"]
                 /\ urls' = SortedArray(found) /\ pc' = "detect"
                 /\ UNCHANGED failures
    /\ UNCHANGED << platform, recursiveCrawling, includeMetadata, baseUrl, outputPath, browser,
                    closes, currentPlatform, visitedUrls, urlsToVisit, currentUrl,
                    detectedPlatform, allContent, idx, fileContent, outcome, det >>

\* strategy 1: the sitemap
Sitemap ==
    /\ pc = "sitemap"
    /\ \/ /\ MayFail
          /\ failures' = failures + 1
          /\ log' = [log EXCEPT !.sitemap = "failed"]
          /\ pc' = "crawl"
          /\ UNCHANGED << pageUrl, discoveredUrls, urls, sitemapXml >>
       \/ \E content \in Sitemaps :
             LET found == SitemapUrls(content, baseUrl, getPlatformConfig(currentPlatform))
             IN  /\ sitemapXml' = content
                 /\ pageUrl' = baseUrl \o "/sitemap.xml"
                 /\ discoveredUrls' = found
                 /\ log' = [log EXCEPT !.sitemap = "parsed"]
                 /\ IF Cardinality(found) > 0
                        THEN urls' = SortedArray(found) /\ pc' = "detect"
                        ELSE urls' = urls /\ pc' = "crawl"
                 /\ UNCHANGED failures
    /\ UNCHANGED << platform, recursiveCrawling, includeMetadata, baseUrl, outputPath, browser,
                    closes, currentPlatform, visitedUrls, urlsToVisit, currentUrl,
                    detectedPlatform, allContent, idx, fileContent, outcome, det >>

\* CrawlPop that takes the address inserted last
CrawlPopLast ==
    /\ pc = "crawl"
    /\ Len(urlsToVisit) > 0
    /\ currentUrl' = urlsToVisit[Len(urlsToVisit)]
    /\ urlsToVisit' = SubSeq(urlsToVisit, 1, Len(urlsToVisit) - 1)
    /\ pc' = IF urlsToVisit[Len(urlsToVisit)] \in visitedUrls THEN "crawl" ELSE "mark"
    /\ UNCHANGED << platform, recursiveCrawling, includeMetadata, baseUrl, outputPath, browser,
                    closes, pageUrl, currentPlatform, discoveredUrls, visitedUrls, urls,
                    detectedPlatform, allContent, idx, fileContent, outcome, sitemapXml,
                    failures, log, det >>

\* strategy 2, head of the while loop: take the first address of urlsToVisit
CrawlPop ==
    /\ pc = "crawl"
    /\ Len(urlsToVisit) > 0
    /\ currentUrl' = Head(urlsToVisit)
    /\ urlsToVisit' = Tail(urlsToVisit)
    /\ pc' = IF Head(urlsToVisit) \in visitedUrls THEN "crawl" ELSE "mark"
    /\ UNCHANGED << platform, recursiveCrawling, includeMetadata, baseUrl, outputPath, browser,
                    closes, pageUrl, currentPlatform, discoveredUrls, visitedUrls, urls,
                    detectedPlatform, allContent, idx, fileContent, outcome, sitemapXml,
                    failures, log, det >>

\* visitedUrls.add(currentUrl)
CrawlMark ==
    /\ pc = "mark"
    /\ visitedUrls' = visitedUrls \cup {currentUrl}
    /\ log' = [log EXCEPT !.rendered = Append(@, currentUrl)]
    /\ pc' = "goto"
    /\ UNCHANGED << platform, recursiveCrawling, includeMetadata, baseUrl, outputPath, browser,
                    closes, pageUrl, currentPlatform, discoveredUrls, urlsToVisit, currentUrl,
                    urls, detectedPlatform, allContent, idx, fileContent, outcome, sitemapXml,
                    failures, det >>

\* CrawlGoto with discoveredUrls.add(currentUrl) ahead of the navigation
CrawlGotoAddsFirst ==
    /\ pc = "goto"
    /\ \/ /\ MayFail
          /\ failures' = failures + 1
          /\ log' = [log EXCEPT !.skipped = @ \cup {currentUrl}]
          /\ discoveredUrls' = discoveredUrls \cup {currentUrl}
          /\ pc' = "crawl"
          /\ UNCHANGED pageUrl
       \/ /\ pageUrl' = Web[currentUrl].location
          /\ discoveredUrls' = discoveredUrls \cup {currentUrl}
          /\ pc' = "links"
          /\ UNCHANGED << failures, log >>
    /\ UNCHANGED << platform, recursiveCrawling, includeMetadata, baseUrl, outputPath, browser,
                    closes, currentPlatform, visitedUrls, urlsToVisit, currentUrl, urls,
                    detectedPlatform, allContent, idx, fileContent, outcome, sitemapXml, det >>

\* CrawlGoto that does not wait for page.goto: the page is still where it was
CrawlGotoNotAwaited ==
    /\ pc = "goto"
    /\ \/ /\ MayFail
          /\ failures' = failures + 1
          /\ log' = [log EXCEPT !.skipped = @ \cup {currentUrl}]
          /\ pc' = "crawl"
          /\ UNCHANGED << pageUrl, discoveredUrls >>
       \/ /\ pageUrl' = pageUrl
          /\ discoveredUrls' =
                IF hasDocumentationContent(Web[currentUrl], getPlatformConfig(currentPlatform), {})
                    THEN discoveredUrls \cup {currentUrl}
                    ELSE discoveredUrls
          /\ pc' = "links"
          /\ UNCHANGED << failures, log >>
    /\ UNCHANGED << platform, recursiveCrawling, includeMetadata, baseUrl, outputPath, browser,
                    closes, currentPlatform, visitedUrls, urlsToVisit, currentUrl, urls,
                    detectedPlatform, allContent, idx, fileContent, outcome, sitemapXml, det >>

\* CrawlGoto that puts an address whose navigation failed back on the frontier
CrawlGotoRetries ==
    /\ pc = "goto"
    /\ \/ /\ MayFail
          /\ failures' = failures + 1
          /\ log' = [log EXCEPT !.skipped = @ \cup {currentUrl}]
          /\ pc' = "crawl"
          /\ urlsToVisit' = Append(urlsToVisit, currentUrl)
          /\ UNCHANGED << pageUrl, discoveredUrls >>
       \/ /\ pageUrl' = Web[currentUrl].location
          /\ \E broken \in DetectionFailures(Web[currentUrl],
                                               getPlatformConfig(currentPlatform)) :
                /\ broken # {} => MayFail
                /\ failures' = IF broken # {} THEN failures + 1 ELSE failures
                /\ log' = [log EXCEPT !.unseen = @ \cup { << currentUrl, sel >> : sel \in broken }]
                /\ discoveredUrls' =
                      IF hasDocumentationContent(Web[currentUrl],
                                                 getPlatformConfig(currentPlatform), broken)
                          THEN discoveredUrls \cup {currentUrl}
                          ELSE discoveredUrls
          /\ pc' = "links"
          /\ UNCHANGED urlsToVisit
    /\ UNCHANGED << platform, recursiveCrawling, includeMetadata, baseUrl, outputPath, browser,
                    closes, currentPlatform, visitedUrls, currentUrl, urls,
                    detectedPlatform, allContent, idx, fileContent, outcome, sitemapXml, det >>

\* page.goto(currentUrl) and the content check; a failure is caught and skips the address
CrawlGoto ==
    /\ pc = "goto"
    /\ \/ /\ MayFail
          /\ failures' = failures + 1
          /\ log' = [log EXCEPT !.skipped = @ \cup {currentUrl}]
          /\ pc' = "crawl"
          /\ UNCHANGED << pageUrl, discoveredUrls >>
       \/ /\ pageUrl' = Web[currentUrl].location
          /\ \E broken \in DetectionFailures(Web[currentUrl],
                                               getPlatformConfig(currentPlatform)) :
                /\ broken # {} => MayFail
                /\ failures' = IF broken # {} THEN failures + 1 ELSE failures
                /\ log' = [log EXCEPT !.unseen = @ \cup { << currentUrl, sel >> : sel \in broken }]
                /\ discoveredUrls' =
                      IF hasDocumentationContent(Web[currentUrl],
                                                 getPlatformConfig(currentPlatform), broken)
                          THEN discoveredUrls \cup {currentUrl}
                          ELSE discoveredUrls
          /\ pc' = "links"
    /\ UNCHANGED << platform, recursiveCrawling, includeMetadata, baseUrl, outputPath, browser,
                    closes, currentPlatform, visitedUrls, urlsToVisit, currentUrl, urls,
                    detectedPlatform, allContent, idx, fileContent, outcome, sitemapXml, det >>

\* the links of the rendered page, selector by selector, into urlsToVisit
CrawlLinks ==
    /\ pc = "links"
    /\ urlsToVisit' =
          LET config == getPlatformConfig(currentPlatform)
          IN  HarvestLinks(urlsToVisit, LinkSelectors(config), Web[currentUrl], baseUrl,
                           config, visitedUrls)
    /\ pc' = "crawl"
    /\ UNCHANGED << platform, recursiveCrawling, includeMetadata, baseUrl, outputPath, browser,
                    closes, pageUrl, currentPlatform, discoveredUrls, visitedUrls, currentUrl,
                    urls, detectedPlatform, allContent, idx, fileContent, outcome, sitemapXml,
                    failures, log, det >>

\* urlsToVisit is empty: return Array.from(discoveredUrls).sort()
CrawlReturn ==
    /\ pc = "crawl"
    /\ Len(urlsToVisit) = 0
    /\ urls' = SortedArray(discoveredUrls)
    /\ pc' = "detect"
    /\ UNCHANGED << platform, recursiveCrawling, includeMetadata, baseUrl, outputPath, browser,
                    closes, pageUrl, currentPlatform, discoveredUrls, visitedUrls, urlsToVisit,
                    currentUrl, detectedPlatform, allContent, idx, fileContent, outcome,
                    sitemapXml, failures, log, det >>

\* the metadata header
Header(p) ==
    IF includeMetadata
        THEN "# Documentation from: " \o baseUrl \o "\n" \o "Platform: " \o p \o "\n"
             \o "Date: " \o Now \o "\n\n" \o "---\n\n"
        ELSE ""

\* scrape: detection on the first address in auto mode, then the header
ScrapeDetect ==
    /\ pc = "detect"
    /\ \/ /\ ~(platform = "auto" /\ Len(urls) > 0 /\ urls[1] # "")
          /\ allContent' = Header(detectedPlatform)
          /\ idx' = 0
          /\ pc' = "extract"
          /\ UNCHANGED << pageUrl, detectedPlatform, outcome, failures, log >>
       \/ /\ platform = "auto" /\ Len(urls) > 0 /\ urls[1] # ""
          /\ MayFail
          /\ failures' = failures + 1
          /\ outcome' = Thrown("NavigationError")
          /\ pc' = "catch"
          /\ UNCHANGED << pageUrl, detectedPlatform, allContent, idx, log >>
       \/ /\ platform = "auto" /\ Len(urls) > 0 /\ urls[1] # ""
          /\ \E evaluateThrows \in BOOLEAN :
                /\ evaluateThrows => MayFail
                /\ failures' = IF evaluateThrows THEN failures + 1 ELSE failures
                /\ LET got == detectPlatform(Web[urls[1]].dom, evaluateThrows)
                   IN  /\ detectedPlatform' = got.value
                       /\ allContent' = Header(got.value)
                       /\ log' = [log EXCEPT !.detections = Append(@, got.value)]
          /\ pageUrl' = Web[urls[1]].location
          /\ idx' = 0
          /\ pc' = "extract"
          /\ UNCHANGED outcome
    /\ UNCHANGED << platform, recursiveCrawling, includeMetadata, baseUrl, outputPath, browser,
                    closes, currentPlatform, discoveredUrls, visitedUrls, urlsToVisit,
                    currentUrl, urls, fileContent, sitemapXml, det >>

\* AddSection that puts the section in front of what was assembled
AddSectionInFront(all, content) ==
    IF Trim(content) # "" THEN content \o "\n\n---\n\n" \o all ELSE all

\* AddSection that appends the separator whatever the content is
AddSectionAlways(all, content) == all \o content \o "\n\n---\n\n"

\* if (content.trim()) { allContent += content + '\n\n---\n\n' }
AddSection(all, content) ==
    IF Trim(content) # "" THEN all \o content \o "\n\n---\n\n" ELSE all

\* one turn of the for loop over urls; a failure is caught and skips the address
Extract ==
    /\ pc = "extract"
    /\ idx < Len(urls)
    /\ LET url == urls[idx + 1]
       IN  \/ /\ url = ""
              /\ UNCHANGED << pageUrl, allContent, failures, log >>
           \/ /\ url # ""
              /\ MayFail
              /\ failures' = failures + 1
              /\ \/ pageUrl' = pageUrl
                 \/ pageUrl' = Web[url].location
              /\ log' = [log EXCEPT !.failed = @ \cup {url}]
              /\ UNCHANGED allContent
           \/ /\ url # ""
              /\ pageUrl' = Web[url].location
              /\ \E broken \in ReadFailures(Web[url], detectedPlatform) :
                    /\ broken # {} => MayFail
                    /\ failures' = IF broken # {} THEN failures + 1 ELSE failures
                    /\ log' = [log EXCEPT !.unread = @ \cup { << url, sel >> : sel \in broken }]
                    /\ allContent' =
                          AddSection(allContent,
                                     extractContent(Web[url], detectedPlatform, broken))
    /\ idx' = idx + 1
    /\ UNCHANGED << platform, recursiveCrawling, includeMetadata, baseUrl, outputPath, pc,
                    browser, closes, currentPlatform, discoveredUrls, visitedUrls, urlsToVisit,
                    currentUrl, urls, detectedPlatform, fileContent, outcome, sitemapXml, det >>

\* the for loop is over
ExtractDone ==
    /\ pc = "extract"
    /\ idx >= Len(urls)
    /\ pc' = "write"
    /\ UNCHANGED << platform, recursiveCrawling, includeMetadata, baseUrl, outputPath, browser,
                    closes, pageUrl, currentPlatform, discoveredUrls, visitedUrls, urlsToVisit,
                    currentUrl, urls, detectedPlatform, allContent, idx, fileContent, outcome,
                    sitemapXml, failures, log, det >>

\* WriteOutput that stores the text without its header
WriteOutputWithoutHeader ==
    /\ pc = "write"
    /\ \/ /\ outputPath = ""
          /\ outcome' = Returned(allContent)
          /\ pc' = "finally"
          /\ UNCHANGED << fileContent, log >>
       \/ /\ outputPath # ""
          /\ fileContent' = SubSeq(allContent, Len(Header(detectedPlatform)) + 1,
                                   Len(allContent))
          /\ log' = [log EXCEPT !.write = "written"]
          /\ outcome' = Returned(allContent)
          /\ pc' = "finally"
       \/ /\ outputPath # ""
          /\ log' = [log EXCEPT !.write = "failed"]
          /\ outcome' = Thrown("WriteError")
          /\ pc' = "catch"
          /\ UNCHANGED fileContent
    /\ UNCHANGED << platform, recursiveCrawling, includeMetadata, baseUrl, outputPath, browser,
                    closes, pageUrl, currentPlatform, discoveredUrls, visitedUrls, urlsToVisit,
                    currentUrl, urls, detectedPlatform, allContent, idx, sitemapXml, failures,
                    det >>

\* if (outputPath) fs.writeFile(...), then return allContent
WriteOutput ==
    /\ pc = "write"
    /\ \/ /\ outputPath = ""
          /\ outcome' = Returned(allContent)
          /\ pc' = "finally"
          /\ UNCHANGED << fileContent, log >>
       \/ /\ outputPath # ""
          /\ fileContent' = allContent
          /\ log' = [log EXCEPT !.write = "written"]
          /\ outcome' = Returned(allContent)
          /\ pc' = "finally"
       \/ /\ outputPath # ""
          /\ log' = [log EXCEPT !.write = "failed"]
          /\ outcome' = Thrown("WriteError")
          /\ pc' = "catch"
          /\ UNCHANGED fileContent
    /\ UNCHANGED << platform, recursiveCrawling, includeMetadata, baseUrl, outputPath, browser,
                    closes, pageUrl, currentPlatform, discoveredUrls, visitedUrls, urlsToVisit,
                    currentUrl, urls, detectedPlatform, allContent, idx, sitemapXml, failures,
                    det >>

\* Catch that swallows the error and returns what was assembled
CatchSwallows ==
    /\ pc = "catch"
    /\ outcome' = Returned(allContent)
    /\ pc' = "finally"
    /\ UNCHANGED << platform, recursiveCrawling, includeMetadata, baseUrl, outputPath, browser,
                    closes, pageUrl, currentPlatform, discoveredUrls, visitedUrls, urlsToVisit,
                    currentUrl, urls, detectedPlatform, allContent, idx, fileContent,
                    sitemapXml, failures, log, det >>

\* catch (error) { console.error(...); throw error }
Catch ==
    /\ pc = "catch"
    /\ outcome' = Thrown(outcome.value)
    /\ pc' = "finally"
    /\ UNCHANGED << platform, recursiveCrawling, includeMetadata, baseUrl, outputPath, browser,
                    closes, pageUrl, currentPlatform, discoveredUrls, visitedUrls, urlsToVisit,
                    currentUrl, urls, detectedPlatform, allContent, idx, fileContent,
                    sitemapXml, failures, log, det >>

\* finally { await browser.close() }: then the caller has the text or the error
Finally ==
    /\ pc = "finally"
    /\ browser' = "closed"
    /\ closes' = closes + 1
    /\ pc' = "done"
    /\ UNCHANGED << platform, recursiveCrawling, includeMetadata, baseUrl, outputPath, pageUrl,
                    currentPlatform, discoveredUrls, visitedUrls, urlsToVisit, currentUrl, urls,
                    detectedPlatform, allContent, idx, fileContent, outcome, sitemapXml,
                    failures, log, det >>

Next ==
    \/ Launch
    \/ NewPage
    \/ Discover
    \/ Sitemap
    \/ CrawlPop
    \/ CrawlMark
    \/ CrawlGoto
    \/ CrawlLinks
    \/ CrawlReturn
    \/ ScrapeDetect
    \/ Extract
    \/ ExtractDone
    \/ WriteOutput
    \/ Catch
    \/ Finally

Spec == Init /\ [][Next]_vars

(***************************************************************************)
(* scrape called a second time on the same scraper, with the same          *)
(* arguments, after a first call that the environment did not disturb.     *)
(* The locals of the first call are not reset here: they hold what the     *)
(* first call left until the second assigns them.  The environment does    *)
(* not disturb the second call either, though it may serve another         *)
(* sitemap and the browser or the write may still fail.                    *)
(***************************************************************************)
Rescrape ==
    /\ pc = "done"
    /\ outcome.kind = "returned"
    /\ failures = 0
    /\ ~log.first.done
    /\ log' = [NoLog EXCEPT !.first = [done |-> TRUE, urls |-> urls,
                                       discoveredUrls |-> discoveredUrls,
                                       sitemapXml |-> sitemapXml]]
    /\ failures' = MaxFailures
    /\ pc' = "launch"
    /\ browser' = "none"
    /\ closes' = 0
    /\ outcome' = NoOutcome
    /\ UNCHANGED << platform, recursiveCrawling, includeMetadata, baseUrl, outputPath, pageUrl,
                    currentPlatform, discoveredUrls, visitedUrls, urlsToVisit, currentUrl, urls,
                    detectedPlatform, allContent, idx, fileContent, sitemapXml, det >>

NextTwice ==
    \/ Next
    \/ Rescrape

SpecTwice == Init /\ [][NextTwice]_vars

(***************************************************************************)
(* detectPlatform on its own: one inspected document, drawn from the       *)
(* documents built of these class attributes, scripts and meta elements.   *)
(***************************************************************************)
ClassAttributes == { "navbar", "docusaurus-mt-lg", "mintlify-root" }
Scripts ==
    { [src |-> "/assets/js/main.js", text |-> ""],
      [src |-> "/assets/js/docusaurus.js", text |-> ""],
      [src |-> "", text |-> "window.docusaurus={}"] }
Metas ==
    { Generator("Mintlify 3.1"), Generator("Hugo 0.120"),
      [name |-> "description", content |-> "Built with Mintlify"] }

InitDetect ==
    /\ platform = "auto"
    /\ recursiveCrawling = TRUE
    /\ includeMetadata = TRUE
    /\ baseUrl = Base
    /\ outputPath = ""
    /\ pc = "inspect"
    /\ browser = "open"
    /\ closes = 0
    /\ pageUrl = Base
    /\ currentPlatform = ""
    /\ discoveredUrls = {}
    /\ visitedUrls = {}
    /\ urlsToVisit = << >>
    /\ currentUrl = ""
    /\ urls = << >>
    /\ detectedPlatform = ""
    /\ allContent = ""
    /\ idx = 0
    /\ fileContent = ""
    /\ outcome = NoOutcome
    /\ sitemapXml = ""
    /\ failures = 0
    /\ log = NoLog
    /\ \E classes \in SUBSET ClassAttributes, scripts \in SUBSET Scripts,
          metas \in SUBSET Metas, evaluateThrows \in BOOLEAN :
          det = [dom |-> [classes |-> classes, scripts |-> scripts, metas |-> metas],
                 evaluateThrows |-> evaluateThrows,
                 out |-> [threw |-> FALSE, value |-> ""]]

\* await this.detectPlatform(page)
Inspect ==
    /\ pc = "inspect"
    /\ det' = [det EXCEPT !.out = detectPlatform(det.dom, det.evaluateThrows)]
    /\ pc' = "inspected"
    /\ UNCHANGED << platform, recursiveCrawling, includeMetadata, baseUrl, outputPath, browser,
                    closes, pageUrl, currentPlatform, discoveredUrls, visitedUrls, urlsToVisit,
                    currentUrl, urls, detectedPlatform, allContent, idx, fileContent, outcome,
                    sitemapXml, failures, log >>

NextDetect == Inspect

SpecDetect == InitDetect /\ [][NextDetect]_vars

(***************************************************************************)
(* Properties.                                                             *)
(***************************************************************************)
Range(seq) == { seq[k] : k \in 1..Len(seq) }

TypeOK ==
    /\ pc \in {"launch", "newPage", "discover", "sitemap", "crawl", "mark", "goto", "links",
               "detect", "extract", "write", "catch", "finally", "done"}
    /\ browser \in {"none", "open", "closed"}
    /\ failures \in 0..MaxFailures
    /\ outcome.kind \in {"none", "returned", "thrown"}

\* C1: every discovered address, at every step and in the returned list, is
\* same-origin with the base address and has no fragment
DiscoveredSameOriginNoFragment ==
    \A u \in discoveredUrls \cup Range(urls) : SameOrigin(u, baseUrl) /\ ~Includes(u, "#")

\* the <loc> addresses of a sitemap
LocAddresses(content) == { StripLocTags(m) : m \in Range(LocMatches(content)) }

\* strictly ascending: sorted, without duplicates
Ascending(seq) == \A k \in 1..(Len(seq) - 1) : StringLess(seq[k], seq[k + 1])

\* C2: the sitemap strategy, run without include patterns, returns exactly the
\* same-origin, fragment-free <loc> addresses, sorted and without duplicates
SitemapReturnsSameOriginSubset ==
    (pc = "detect" /\ log.sitemap = "parsed" /\ ~HasUrlPatterns(getPlatformConfig(currentPlatform))
       /\ visitedUrls = {})
        => /\ Range(urls) = { u \in LocAddresses(sitemapXml) :
                                  SameOrigin(u, baseUrl) /\ ~Includes(u, "#") }
           /\ Ascending(urls)

\* the addresses a page links to, under any selector
LinksOf(u) ==
    IF u \in DOMAIN Web
        THEN UNION { Range(Web[u].anchors[sel]) : sel \in DOMAIN Web[u].anchors }
        ELSE {}

\* the addresses reachable from the base address through same-origin,
\* fragment-free links that no exclude pattern of the configuration matches
RECURSIVE ReachableFrom(_, _)
ReachableFrom(seen, config) ==
    LET more == { v \in UNION { LinksOf(u) : u \in seen } :
                    /\ SameOrigin(v, baseUrl)
                    /\ ~Includes(v, "#")
                    /\ HasExcludePatterns(config) =>
                           ~SomePatternMatches(config.excludePatterns, v) }
    IN  IF more \subseteq seen THEN seen ELSE ReachableFrom(seen \cup more, config)

\* C3: when the crawl loop ends, having rendered every page it tried, the
\* visited set is the set reachable through same-origin links
CrawlVisitsReachable ==
    (pc = "detect" /\ baseUrl \in visitedUrls /\ log.skipped = {})
        => /\ urlsToVisit = << >>
           /\ visitedUrls = ReachableFrom({baseUrl}, getPlatformConfig(currentPlatform))

\* C4: the visited set and the frontier are disjoint at every step, and the
\* address taken from the frontier is not a visited one
FrontierVisitedDisjoint ==
    /\ visitedUrls \cap Range(urlsToVisit) = {}
    /\ pc = "mark" => currentUrl \notin visitedUrls /\ currentUrl \notin Range(urlsToVisit)

FrontierAndVisitedBothFilled ==
    pc = "crawl" /\ Cardinality(visitedUrls) >= 2 /\ Len(urlsToVisit) >= 2

\* C5: scrape throws only when the browser cannot be initialised or the
\* output cannot be written, never for a navigation error
OnlyInitAndWriteAbort ==
    (pc = "done" /\ outcome.kind = "thrown")
        => outcome.value \in {"LaunchError", "NewPageError", "WriteError"}

\* C6: an address whose navigation or extraction fails contributes nothing,
\* the loop goes on with the next address, and what was accumulated stays
FailedAddressIsSkipped ==
    /\ [](log.skipped \cap discoveredUrls = {})
    /\ [][ /\ log'.skipped # log.skipped =>
                /\ pc = "goto" /\ pc' = "crawl"
                /\ log'.skipped = log.skipped \cup {currentUrl}
                /\ discoveredUrls' = discoveredUrls
                /\ visitedUrls' = visitedUrls
                /\ urlsToVisit' = urlsToVisit
                /\ outcome' = outcome
           /\ log'.failed # log.failed =>
                /\ pc = "extract" /\ pc' = "extract"
                /\ log'.failed = log.failed \cup {urls[idx + 1]}
                /\ allContent' = allContent
                /\ urls' = urls
                /\ idx' = idx + 1
                /\ outcome' = outcome ]_vars

BothLoopsSkippedAnAddress ==
    /\ pc = "done" /\ outcome.kind = "returned"
    /\ log.skipped # {} /\ log.failed # {}
    /\ discoveredUrls \ log.failed # {}
    /\ Includes(outcome.value, "**URL:** ")

\* C7: a failed sitemap fetch does not fail discovery: the recursive crawl
\* runs from the base address and its result is what discovery returns
CrawlPcs == {"crawl", "mark", "goto", "links"}

WriteFailurePropagates ==
    /\ log.write = "failed" => /\ outcome = Thrown("WriteError")
                               /\ pc \in {"catch", "finally", "done"}
                               /\ fileContent = ""
    /\ (log.write = "failed" /\ pc = "done") => browser = "closed" /\ closes = 1

WriteFailed == log.write = "failed" /\ pc = "done" /\ Len(allContent) > 0

\* the markers detectPlatform looks for
DocusaurusMarker(dom) ==
    \/ \E c \in dom.classes : Includes(c, "docusaurus")
    \/ \E sc \in dom.scripts : Includes(sc.src, "docusaurus") \/ Includes(sc.text, "docusaurus")
MintlifyMarker(dom) ==
    \/ \E m \in dom.metas : m.name = "generator" /\ Includes(m.content, "Mintlify")
    \/ \E c \in dom.classes : Includes(c, "mintlify")

\* C9: detectPlatform never raises and returns a platform; when the
\* inspection of the document fails it returns auto
DetectNeverRaises ==
    pc = "inspected" =>
        /\ ~det.out.threw
        /\ det.out.value \in Platform
        /\ det.evaluateThrows => det.out.value = "auto"

InspectionFailedOnMarkedPage ==
    pc = "inspected" /\ det.evaluateThrows /\ DocusaurusMarker(det.dom)

\* C10 as claimed: the result is a platform exactly when a marker of it is on
\* the page (docusaurus first when both are), auto exactly when none is
DetectExactlyByMarkers ==
    pc = "inspected" =>
        /\ det.out.value = "docusaurus" <=> DocusaurusMarker(det.dom)
        /\ det.out.value = "mintlify" <=> (MintlifyMarker(det.dom) /\ ~DocusaurusMarker(det.dom))
        /\ det.out.value = "auto" <=> (~DocusaurusMarker(det.dom) /\ ~MintlifyMarker(det.dom))

\* C10 as amended: so it is when the inspection succeeds; when it fails the
\* result is auto, whatever markers the page carries
DetectByMarkersWhenInspected ==
    pc = "inspected" =>
        IF det.evaluateThrows THEN det.out.value = "auto"
        ELSE /\ det.out.value = "docusaurus" <=> DocusaurusMarker(det.dom)
             /\ det.out.value = "mintlify" <=>
                    (MintlifyMarker(det.dom) /\ ~DocusaurusMarker(det.dom))
             /\ det.out.value = "auto" <=>
                    (~DocusaurusMarker(det.dom) /\ ~MintlifyMarker(det.dom))
             /\ det.dom = [classes |-> {}, scripts |-> {}, metas |-> {Generator("Mintlify 3.1")}]
                    => det.out.value = "mintlify"

MintlifyByGeneratorOnly ==
    /\ pc = "inspected" /\ ~det.evaluateThrows
    /\ det.dom = [classes |-> {}, scripts |-> {}, metas |-> {Generator("Mintlify 3.1")}]
    /\ det.out.value = "mintlify"

\* C11: the configuration in use for platform auto has as navigation selectors
\* the union of the docusaurus and mintlify navigation selectors, as content
\* selectors the union of their content selectors, and no include or exclude
\* patterns
AutoConfigIsUnion ==
    \A p \in {currentPlatform, detectedPlatform} :
        p = "auto" =>
            LET config == getPlatformConfig(p)
            IN  /\ Range(config.navigationSelectors) =
                       Range(getPlatformConfig("docusaurus").navigationSelectors)
                       \cup Range(getPlatformConfig("mintlify").navigationSelectors)
                /\ Range(config.contentSelectors) =
                       Range(getPlatformConfig("docusaurus").contentSelectors)
                       \cup Range(getPlatformConfig("mintlify").contentSelectors)
                /\ ~HasUrlPatterns(config)
                /\ ~HasExcludePatterns(config)

\* the markup the cascade ends with: that of the first selector of the list,
\* outside skip, that matches an element; empty when there is none
RECURSIVE CascadeMarkup(_, _, _)
CascadeMarkup(page, selectors, skip) ==
    IF selectors = << >> THEN ""
    ELSE IF Head(selectors) \notin skip /\ QuerySelector(page, Head(selectors)).found
        THEN QuerySelector(page, Head(selectors)).innerHTML
    ELSE CascadeMarkup(page, Tail(selectors), skip)

\* the selectors whose read failed in the step from log to log', for address url
UnreadIn(url, before, after) == { e[2] : e \in { f \in after \ before : f[1] = url } }

\* what a turn of the extraction loop adds for markup: nothing when it is
\* empty, else a section that ends with the converted markup and the separator
AddsSectionOf(markup, before, after) ==
    IF markup = "" THEN after = before
    ELSE /\ Len(after) > Len(before)
         /\ SubSeq(after, 1, Len(before)) = before
         /\ EndsWith(after, "\n\n" \o Turndown(markup) \o "\n\n---\n\n")

Sections ==
    [p \in Platform |->
        [u \in DOMAIN Web |->
            [skip \in {{}} \cup { {sel} : sel \in Range(getPlatformConfig(p).contentSelectors) } |->
                LET page   == Web[u]
                    markup == CascadeMarkup(page, getPlatformConfig(p).contentSelectors, skip)
                IN  IF markup = "" THEN ""
                    ELSE "## " \o page.title \o "\n" \o "\n"
                         \o "**URL:** " \o page.location \o "\n"
                         \o "**Ruta:** " \o Pathname(page.location) \o "\n" \o "\n"
                         \o Turndown(markup) \o "\n" \o "\n"
                         \o "---" \o "\n" \o "\n"]]]

\* the section of address u in the document: none when its turn of the loop
\* failed or the cascade ended without markup
SectionOf(u) ==
    IF u \in log.failed THEN ""
    ELSE Sections[detectedPlatform][u][UnreadIn(u, {}, log.unread)]

\* the sections of the first k addresses of the list, in the order of the list
RECURSIVE SectionsUpTo(_)
SectionsUpTo(k) == IF k = 0 THEN "" ELSE SectionsUpTo(k - 1) \o SectionOf(urls[k])

HeaderNamesConcretePlatform ==
    (includeMetadata /\ pc \in {"extract", "write", "catch", "finally", "done"}
       /\ Includes(allContent, "Platform: "))
        => \/ Includes(allContent, "\nPlatform: docusaurus\n")
           \/ Includes(allContent, "\nPlatform: mintlify\n")

\* C15: the platform is resolved at most once in a run, and the platform that
\* drove discovery is the one that drives extraction and is named in the header
PlatformResolvedOnce ==
    /\ Len(log.detections) <= 1
    /\ pc \in {"extract", "write"} =>
           /\ detectedPlatform = currentPlatform
           /\ includeMetadata => Includes(allContent, "\nPlatform: " \o currentPlatform \o "\n")

\* C16: when the configuration of discovery has include patterns, every
\* address discovery returns matches one of them, whichever strategy ran
ReturnedMatchIncludePatterns ==
    LET config == getPlatformConfig(currentPlatform)
    IN  (pc = "detect" /\ HasUrlPatterns(config))
            => \A u \in Range(urls) : SomePatternMatches(config.urlPatterns, u)

\* C17: when the configuration of discovery has exclude patterns, no address
\* in the frontier, the discovered set or the returned list matches one of them
NoExcludedAddressKept ==
    LET config == getPlatformConfig(currentPlatform)
    IN  (currentPlatform # "" /\ HasExcludePatterns(config))
            => \A u \in (Range(urlsToVisit) \ {baseUrl}) \cup discoveredUrls \cup Range(urls) :
                   ~SomePatternMatches(config.excludePatterns, u)

\* the addresses a page offers to the crawl, under the selectors of config
LinksUnder(u, config) ==
    UNION { Range(EvalHrefs(Web[u], sel)) : sel \in Range(LinkSelectors(config)) }

\* per platform and page, the offered addresses the crawl's test of links
\* lets through when nothing is visited yet
OfferedLinks ==
    [p \in Platform |->
        [u \in DOMAIN Web |->
            { v \in LinksUnder(u, getPlatformConfig(p)) :
                  CrawlKeeps(v, Base, getPlatformConfig(p), {}) }]]

\* per platform and page, the content selectors that on their own make the
\* content check succeed
TextSelectors ==
    [p \in Platform |->
        [u \in DOMAIN Web |->
            LET all == Range(getPlatformConfig(p).contentSelectors)
            IN  { sel \in all :
                      hasDocumentationContent(Web[u], getPlatformConfig(p), all \ {sel}) }]]

\* the least set that holds the base address and every address a rendered
\* page of the set offers and the crawl's test of links lets through; the
\* pages in skipped were not rendered.  No order of traversal enters into it.
RECURSIVE CrawlClosure(_, _, _)
CrawlClosure(seen, p, skipped) ==
    LET more == UNION { OfferedLinks[p][u] : u \in seen \ skipped }
    IN  IF more \subseteq seen THEN seen ELSE CrawlClosure(seen \cup more, p, skipped)

\* C18: the list discovery returns is sorted ascending without duplicates,
\* and after a crawl it holds exactly the rendered pages with content among
\* the addresses the site offers from the base address: a set fixed by the
\* pages, whatever the order in which the frontier was emptied
ReturnedListFixedByPages ==
    pc = "detect" =>
        /\ Ascending(urls)
        /\ Range(urls) = discoveredUrls
        /\ baseUrl \in visitedUrls =>
               /\ visitedUrls = CrawlClosure({baseUrl}, currentPlatform, log.skipped)
               /\ Range(urls) =
                      { u \in visitedUrls \ log.skipped :
                            TextSelectors[currentPlatform][u]
                                \ UnreadIn(u, {}, log.unseen) # {} }

CrawlReturnedSeveral ==
    /\ pc = "detect" /\ baseUrl \in visitedUrls
    /\ Len(urls) >= 4
    /\ log.skipped = {}

\* C19: when scrape returns, the text is what was assembled; with an
\* outputPath the file holds exactly that text, without one nothing is written
WrittenIsReturned ==
    (pc \in {"finally", "done"} /\ outcome.kind = "returned") =>
        /\ outcome.value = allContent
        /\ outputPath # "" => fileContent = outcome.value /\ log.write = "written"
        /\ outputPath = "" => fileContent = "" /\ log.write = "none"

WrittenAndReturnedDocument ==
    /\ pc = "done" /\ outcome.kind = "returned" /\ outputPath # "" /\ includeMetadata
    /\ fileContent = outcome.value
    /\ Includes(fileContent, "**URL:** " \o AlphaUrl)

\* the positions of scrape at which a navigation is awaited
NavigationPcs == {"discover", "sitemap", "goto", "detect", "extract"}

\* C20: one step at a time on one rendering context: the browser is opened
\* and closed once, the page moves only in a navigation step and has arrived
\* where the step sent it before its links are read, the three sets of
\* discovery change only in steps of discovery, one step each, and the
\* extraction loop takes the list one address after the other
OneStepAtATime ==
    /\ [](closes <= 1 /\ (closes = 1 <=> browser = "closed"))
    /\ [](pc = "links" => pageUrl = Web[currentUrl].location)
    /\ [][ pageUrl' # pageUrl => pc \in NavigationPcs ]_vars
    /\ [][ (discoveredUrls' # discoveredUrls \/ visitedUrls' # visitedUrls
              \/ urlsToVisit' # urlsToVisit)
            => pc \in {"discover", "sitemap"} \cup CrawlPcs ]_vars
    /\ [][ visitedUrls' # visitedUrls =>
                pc = "discover" \/ (pc = "mark" /\ visitedUrls' = visitedUrls \cup {currentUrl}) ]_vars
    /\ [][ (pc = "extract" /\ pc' = "extract") =>
                /\ idx' = idx + 1
                /\ pageUrl' \in {pageUrl, Web[urls[idx + 1]].location} ]_vars

ExtractingAfterCrawl ==
    /\ pc = "extract" /\ idx >= 2
    /\ Cardinality(visitedUrls) >= 3
    /\ pageUrl = Web[urls[idx]].location
    /\ Includes(allContent, "**URL:** " \o urls[idx])

\* C21: discovery starts every run with empty discovered and visited sets and
\* a frontier of the base address alone, whatever the run before left, and a
\* second run on the same input returns the list and the discovered set of
\* the first
DiscoveryRepeatable ==
    /\ [][ (pc = "discover" /\ pc' # "discover") =>
                /\ discoveredUrls' = {}
                /\ visitedUrls' = {}
                /\ urlsToVisit' = << baseUrl >> ]_vars
    /\ []( (log.first.done /\ pc = "detect" /\ sitemapXml = log.first.sitemapXml) =>
                /\ urls = log.first.urls
                /\ discoveredUrls = log.first.discoveredUrls )

SecondRunReturnedSame ==
    /\ log.first.done /\ pc = "detect"
    /\ Len(urls) >= 3 /\ urls = log.first.urls
    /\ sitemapXml = SitemapMixed

\* no content selector of platform p matches an element of the page of u
NoContentMatch(u, p) ==
    \A sel \in Range(getPlatformConfig(p).contentSelectors) : ~QuerySelector(Web[u], sel).found

\* C22: a turn of the extraction loop that renders a page on which no content
\* selector matches gets the empty result, appends no section and no separator,
\* raises nothing and goes on to the next address
NoMatchAddsNothing ==
    [][ ( /\ pc = "extract" /\ idx < Len(urls)
          /\ urls[idx + 1] # ""
          /\ urls[idx + 1] \notin log'.failed
          /\ NoContentMatch(urls[idx + 1], detectedPlatform) )
        => /\ extractContent(Web[urls[idx + 1]], detectedPlatform, {}) = ""
           /\ allContent' = allContent
           /\ idx' = idx + 1 /\ pc' = "extract"
           /\ outcome' = NoOutcome /\ failures' = failures ]_vars

PageWithoutContentPassed ==
    /\ pc = "done" /\ outcome.kind = "returned"
    /\ \E k \in 1..(Len(urls) - 1) :
          /\ NoContentMatch(urls[k], detectedPlatform)
          /\ urls[k] \notin log.failed
          /\ SectionOf(urls[k + 1]) # ""
          /\ Includes(outcome.value, SectionOf(urls[k + 1]))
          /\ ~Includes(outcome.value, urls[k] \o "\n")

\* the positions of scrape at which discovery has chosen its strategy
StrategyChosenPcs == CrawlPcs \cup {"sitemap", "detect", "extract", "write"}

\* C23: the sitemap is requested exactly when the configuration of the
\* platform has useSitemap and recursive crawling is off; with recursive
\* crawling on, no sitemap is ever requested and the list returned is that of
\* the crawl
SitemapOnlyWhenNotRecursive ==
    /\ [][ (pc = "discover" /\ pc' \in {"sitemap", "crawl"}) =>
             (pc' = "sitemap" <=>
                 (getPlatformConfig(currentPlatform').useSitemap /\ ~recursiveCrawling)) ]_vars
    /\ [][ (pc # "sitemap" /\ pc' = "sitemap") => pc = "discover" ]_vars
    /\ []( (pc \in StrategyChosenPcs \ {"sitemap"}) =>
             (log.sitemap # "none" <=>
                 (getPlatformConfig(currentPlatform).useSitemap /\ ~recursiveCrawling)) )
    /\ []( recursiveCrawling =>
             /\ pc # "sitemap" /\ log.sitemap = "none" /\ sitemapXml = ""
             /\ pageUrl # baseUrl \o "/sitemap.xml"
             /\ pc \in {"detect", "extract", "write"} =>
                    /\ Range(urls) = discoveredUrls
                    /\ discoveredUrls \subseteq visitedUrls
                    /\ baseUrl \in visitedUrls )

RecursiveCrawlWithoutSitemap ==
    /\ recursiveCrawling /\ pc = "detect"
    /\ log.sitemap = "none" /\ sitemapXml = ""
    /\ Len(urls) >= 2 /\ Len(log.rendered) >= 3

\* C24: the frontier starts as the base address alone, and an address enters
\* it afterwards only from the links of the page just rendered and only if it
\* is same-origin with the base address, has no fragment, is not visited and
\* matches no exclude pattern of the configuration
FrontierInsertionsFiltered ==
    /\ [][ (pc = "discover" /\ pc' # "discover") => urlsToVisit' = << baseUrl >> ]_vars
    /\ [][ pc # "discover" =>
             \A u \in Range(urlsToVisit') \ Range(urlsToVisit) :
                LET config == getPlatformConfig(currentPlatform)
                IN  /\ pc = "links"
                    /\ pageUrl = Web[currentUrl].location
                    /\ \E sel \in Range(LinkSelectors(config)) :
                           u \in Range(EvalHrefs(Web[currentUrl], sel))
                    /\ SameOrigin(u, baseUrl)
                    /\ ~Includes(u, "#")
                    /\ u \notin visitedUrls
                    /\ HasExcludePatterns(config) =>
                           ~SomePatternMatches(config.excludePatterns, u) ]_vars

IsPrefix(a, b) == Len(a) <= Len(b) /\ SubSeq(b, 1, Len(a)) = a

\* the addresses in the order in which they entered the frontier: those
\* rendered, the one taken and not yet marked, those still waiting
InsertionOrder ==
    log.rendered \o (IF pc = "mark" THEN << currentUrl >> ELSE << >>) \o urlsToVisit

\* the number of links from the base address to u through rendered pages,
\* level by level
RECURSIVE Depth(_, _, _, _, _)
Depth(u, level, seen, p, skipped) ==
    IF u \in level \/ level = {} THEN 0
    ELSE 1 + Depth(u, UNION { OfferedLinks[p][v] : v \in level \ skipped } \ (seen \cup level),
                   seen \cup level, p, skipped)

\* per platform and page, the offered addresses the crawl's test of links
\* lets through when nothing is visited yet, in the order the page gives them
OfferedInOrder ==
    [p \in Platform |->
        [u \in DOMAIN Web |->
            HarvestLinks(<< >>, LinkSelectors(getPlatformConfig(p)), Web[u], Base,
                         getPlatformConfig(p), {})]]

RECURSIVE Enqueue(_, _, _)
Enqueue(queue, links, seen) ==
    IF links = << >> THEN queue
    ELSE Enqueue(IF Head(links) \in seen THEN queue ELSE SetAdd(queue, Head(links)),
                 Tail(links), seen)

\* the order in which a first-in first-out frontier is emptied, as fixed by
\* the pages, the platform and the set of pages that failed to render
RECURSIVE BreadthFirst(_, _, _, _)
BreadthFirst(queue, seen, p, skipped) ==
    IF queue = << >> THEN << >>
    ELSE LET u    == Head(queue)
             rest == IF u \in skipped THEN Tail(queue)
                     ELSE Enqueue(Tail(queue), OfferedInOrder[p][u], seen \cup {u})
         IN  << u >> \o BreadthFirst(rest, seen \cup {u}, p, skipped)

\* C25: the crawl takes addresses off the frontier in the order in which they
\* entered it, so pages are rendered by increasing distance from the base
\* address and, for fixed pages, in one fixed sequence
CrawlIsBreadthFirst ==
    /\ [][ (pc = "crawl" /\ pc' = "mark") =>
             /\ currentUrl' = Head(urlsToVisit) /\ urlsToVisit' = Tail(urlsToVisit) ]_vars
    /\ [][ (pc \in CrawlPcs) => IsPrefix(InsertionOrder, InsertionOrder') ]_vars
    /\ []( (pc = "detect" /\ baseUrl \in visitedUrls) =>
             LET d == [k \in DOMAIN log.rendered |->
                          Depth(log.rendered[k], {baseUrl}, {}, currentPlatform, log.skipped)]
             IN  /\ \A i, j \in DOMAIN d : i < j => d[i] <= d[j]
                 /\ log.rendered =
                        BreadthFirst(<< baseUrl >>, {}, currentPlatform, log.skipped) )

RenderedTwoLevels ==
    /\ pc = "detect" /\ baseUrl \in visitedUrls /\ log.skipped = {}
    /\ Len(log.rendered) >= 5
    /\ log.rendered[1] = baseUrl
    /\ Depth(log.rendered[2], {baseUrl}, {}, currentPlatform, {}) = 1
    /\ Depth(log.rendered[Len(log.rendered)], {baseUrl}, {}, currentPlatform, {}) = 2

NoDuplicates(seq) == \A i, j \in DOMAIN seq : seq[i] = seq[j] => i = j

\* C26: in the crawl an address enters the frontier once and is rendered
\* once: an address taken and marked visited is never put back and never
\* navigated to again, whether its navigation succeeded or failed, and the
\* visited set never loses an address
RenderedAtMostOnce ==
    /\ [][ (pc \in CrawlPcs) => visitedUrls \subseteq visitedUrls' ]_vars
    /\ [][ (pc \in CrawlPcs) =>
             \A u \in Range(urlsToVisit') \ Range(urlsToVisit) :
                u \notin visitedUrls /\ u \notin Range(log.rendered) ]_vars
    /\ [][ (pc = "mark") => currentUrl \notin visitedUrls ]_vars
    /\ []( (pc \in CrawlPcs) =>
             /\ NoDuplicates(InsertionOrder)
             /\ Range(log.rendered) = visitedUrls
             /\ log.skipped \subseteq visitedUrls
             /\ Range(urlsToVisit) \cap visitedUrls = {} )

FailedAndSharedAddressesOnce ==
    /\ pc = "crawl" /\ urlsToVisit = << >>
    /\ log.skipped # {}
    /\ Len(log.rendered) >= 4
    /\ \E u \in visitedUrls : \E v, w \in visitedUrls \ log.skipped :
          /\ v # w
          /\ u \in OfferedLinks[currentPlatform][v] \cap OfferedLinks[currentPlatform][w]

\* per platform and page, the content selectors that match an element whose
\* trimmed text is longer than the minimum
QualifyingSelectors ==
    [p \in Platform |->
        [u \in DOMAIN Web |->
            { sel \in Range(getPlatformConfig(p).contentSelectors) :
                  /\ QuerySelector(Web[u], sel).found
                  /\ Len(Trim(QuerySelector(Web[u], sel).textContent)) > MinTextLength }]]

\* C27: in the crawl an address joins the discovered set only in the step that
\* rendered it, after it was marked visited and its navigation succeeded, and
\* only if a content selector that could be read matches an element with more
\* than 100 characters of trimmed text; the discovered set stays within the
\* visited set and never loses an address
DiscoveredOnlyWithContent ==
    /\ [][ (pc \in CrawlPcs) =>
             /\ discoveredUrls \subseteq discoveredUrls'
             /\ \A u \in discoveredUrls' \ discoveredUrls :
                   /\ pc = "goto" /\ u = currentUrl
                   /\ u \in visitedUrls
                   /\ pageUrl' = Web[u].location
                   /\ u \notin log'.skipped
                   /\ QualifyingSelectors[currentPlatform][u]
                          \ UnreadIn(u, {}, log'.unseen) # {} ]_vars
    /\ []( (pc \in CrawlPcs) =>
             /\ discoveredUrls \subseteq visitedUrls
             /\ \A u \in discoveredUrls :
                   /\ u \notin log.skipped
                   /\ QualifyingSelectors[currentPlatform][u] # {} )

BorderPageVisitedNotDiscovered ==
    /\ pc = "crawl" /\ urlsToVisit = << >>
    /\ BetaUrl \in visitedUrls \ log.skipped
    /\ Len(Trim(QuerySelector(Web[BetaUrl], ".markdown").textContent)) = MinTextLength
    /\ ".markdown" \in Range(getPlatformConfig(currentPlatform).contentSelectors)
    /\ BetaUrl \notin discoveredUrls
    /\ AlphaUrl \in discoveredUrls
    /\ << AlphaUrl, "main article" >> \notin log.unseen

\* C28: once the browser was launched, every way out of scrape has closed it
\* exactly once before the caller has the text or the error
BrowserClosedOnEveryExit ==
    (pc = "done" /\ browser # "none") => (browser = "closed" /\ closes = 1)

\* C29: every address the crawl discovered, whose page is rendered and read
\* without error by the extraction loop under the same platform, has a
\* section of its own in the assembled document
DiscoveredHasSection ==
    (pc = "write" /\ baseUrl \in visitedUrls /\ detectedPlatform = currentPlatform) =>
        \A u \in discoveredUrls :
            (u \notin log.failed /\ UnreadIn(u, {}, log.unread) = {}) =>
                /\ SectionOf(u) # ""
                /\ Includes(allContent, "**URL:** " \o Web[u].location \o "\n")

\* per platform and sitemap, the addresses that survive the sitemap's filters
SitemapSurvivors ==
    [p \in Platform |->
        [content \in Sitemaps |-> SitemapUrls(content, Base, getPlatformConfig(p))]]

====
